---- MODULE Spec2Model ----
(***************************************************************************)
(* Resilience / flow-control layer of the architecture-design backend:     *)
(*   RateLimiter  (backend/app/utils/rate_limiter.py)                      *)
(*   QuotaManager (backend/app/utils/rate_limiter.py)                      *)
(*   RetryHandler (backend/app/utils/retry_handler.py)                     *)
(*   GeminiService (backend/app/services/gemini_service.py), which puts    *)
(*   the three around its calls of the LLM client                          *)
(*                                                                         *)
(* Units.  Time is counted in whole seconds.  The bucket level is kept in  *)
(* sixtieths of a token, so that  tokens + elapsed * rate  with            *)
(* rate = requests_per_minute / 60  stays an integer:                      *)
(*      60 * (tokens + elapsed * rpm / 60) = 60 * tokens + elapsed * rpm   *)
(* A wait time (n - tokens) / rate is the fraction num / rpm seconds with  *)
(* num = 60 * n - 60 * tokens; the model keeps num.                        *)
(***************************************************************************)
EXTENDS Integers, Sequences, FiniteSets, TLC

\* ---------------------------------------------------------------- bounds
RequestsPerMinute == 2
BurstSize == 2
TickSeconds == 20
NumThreads == 2

\* ------------------------------------------------------- program constants
TokenScale == 60
RateWindow == 60

VARIABLES
    tokens,          \* RateLimiter.tokens, in sixtieths of a token
    since_update,    \* time.time() - RateLimiter.last_update, saturating
    request_times,   \* RateLimiter.request_times, as ages (now - t), oldest first
    lock,            \* RateLimiter.lock : owner thread or NoThread
    pc,              \* per thread: position inside the RateLimiter method
    op,              \* per thread: method being executed
    want,            \* per thread: acquire's tokens argument
    blocking,        \* per thread: acquire's blocking argument
    depth,           \* per thread: recursion depth of acquire (line 158)
    sleep_left,      \* per thread: seconds left of time.sleep(wait_time)
    result,          \* per thread: outcome of the last finished call
    fresh,           \* acquire(1) grants since construction or reset(), -1 once disturbed
    grants           \* the grants of the trailing 60 s since the last reset, one
                     \* record per instant: age, tokens granted, calls granted

rlvars == <<tokens, since_update, request_times, lock, pc, op, want,
            blocking, depth, sleep_left, result, fresh, grants>>

\* QuotaManager, one caller at a time
VARIABLES
    usage,      \* QuotaManager.usage : QuotaUsage
    qnow,       \* datetime.now(), seconds since construction
    qticks,     \* number of clock advances so far
    qlast       \* the last finished QuotaManager call: arguments and outcome

qvars == <<usage, qnow, qticks, qlast>>

\* QuotaManager.check_and_increment, step by step for each calling thread
VARIABLES
    qlock,      \* QuotaManager.lock : owner thread or NoThread
    qpc,        \* per thread: position inside check_and_increment
    qtok,       \* per thread: the tokens argument
    qcost,      \* per thread: the cost argument
    qidx,       \* per thread: which `+=` of lines 271-277 is next
    qtmp,       \* per thread: the value loaded by the current `+=`
    admitted    \* per counter: sum admitted since the counter's last reset

qtvars == <<qlock, qpc, qtok, qcost, qidx, qtmp, admitted>>

\* RetryHandler
VARIABLES
    max_retries,    \* RetryHandler.config.max_retries
    r_exception,    \* should_retry's exception argument (its class)
    r_attempt,      \* should_retry's attempt argument
    r_result        \* what should_retry returned

rvars == <<max_retries, r_exception, r_attempt, r_result>>

\* RetryConfig.get_wait_time
VARIABLES
    w_config,       \* the RetryConfig the last get_wait_time ran on
    w_attempt,      \* its attempt argument, -1 before the first call
    w_random,       \* what random.random() gave it, in JitterSteps-ths
    w_result,       \* what it returned, a fraction num / den of a second
    w_prev          \* what it returned for attempt - 1, same configuration

wvars == <<w_config, w_attempt, w_random, w_result, w_prev>>

\* RetryHandler.execute_with_retry and execute_with_retry_async
VARIABLES
    retry_config,     \* RetryHandler.config, but for max_retries
    attempt_history,  \* RetryHandler.attempt_history
    e_pc,             \* position inside execute_with_retry
    e_async,          \* TRUE when the call is execute_with_retry_async
    e_attempt,        \* the loop variable `attempt` of line 162
    fn_log,           \* what each invocation of func did in this call
    sleeps,           \* the wait times slept in this call, in order
    e_outcome,        \* how the call ended: value returned or exception raised
    failed_calls      \* failed invocations of func since the last clear_history

evars == <<retry_config, attempt_history, e_pc, e_async, e_attempt, fn_log,
           sleeps, e_outcome, failed_calls>>

\* GeminiService: the calling thread is thread 1 of the RateLimiter
VARIABLES
    enable_rate_limiting,     \* GeminiService.enable_rate_limiting
    enable_quota_management,  \* GeminiService.enable_quota_management
    g_pc,         \* position inside the service method
    g_method,     \* the public method being executed
    g_left,       \* batch_generate: prompts not yet handed to generate
    g_events,     \* what the current generate / generate_streaming did, in order
    g_result      \* how the last generate / generate_streaming ended

svars == <<enable_rate_limiting, enable_quota_management, g_pc, g_method,
           g_left, g_events, g_result>>

\* GeminiService built with the default configuration
VARIABLES
    d_tokens,     \* the RateLimiter's bucket, in sixtieths of a token
    d_last_update, \* the RateLimiter's last_update
    d_usage,      \* the QuotaManager's usage
    d_now,        \* seconds since the service was built
    d_calls,      \* generate calls made so far
    d_passed      \* how many of them passed the quota check

dvars == <<d_tokens, d_last_update, d_usage, d_now, d_calls, d_passed>>

\* RateLimiter(requests_per_minute, burst_size) built by a caller of the class
VARIABLES
    c_status,      \* "none", "constructed", or the exception __init__ raised
    c_rpm,         \* the requests_per_minute argument
    c_burst_size,  \* RateLimiter.burst_size
    c_tokens,      \* RateLimiter.tokens, in sixtieths of a token
    c_elapsed,     \* seconds since RateLimiter.last_update
    c_locked,      \* TRUE once a blocking acquire sleeps holding the lock
    c_outcome      \* how the last acquire ended

cvars == <<c_status, c_rpm, c_burst_size, c_tokens, c_elapsed, c_locked, c_outcome>>

\* retry(config, retryable_exceptions) and async_retry
VARIABLES
    x_retryable    \* the retryable_exceptions argument of the decorator

xvars == <<x_retryable>>

\* QuotaManager watched across its window boundaries
VARIABLES
    recent_cost    \* cost admitted in the trailing 60 s: age in seconds, cost

hvars == <<recent_cost>>

vars == <<rlvars, qvars, qtvars, rvars, wvars, evars, svars, dvars, cvars, xvars,
          hvars>>

\* what the operations of one component leave alone
OnlyRateLimiter == UNCHANGED <<qvars, qtvars, rvars, wvars, evars, svars, dvars, cvars, xvars, hvars>>
OnlyQuota == UNCHANGED <<rlvars, qtvars, rvars, wvars, evars, svars, dvars, cvars, xvars, hvars>>
OnlyQuotaThreads == UNCHANGED <<rlvars, rvars, wvars, evars, svars, dvars, cvars, xvars, hvars>>
OnlyRetry == UNCHANGED <<rlvars, qvars, qtvars, wvars, evars, svars, dvars, cvars, xvars, hvars>>
OnlyBackoff == UNCHANGED <<rlvars, qvars, qtvars, rvars, evars, svars, dvars, cvars, xvars, hvars>>
OnlyExecute == UNCHANGED <<rlvars, qvars, qtvars, r_exception, r_attempt,
                           r_result, wvars, svars, dvars, cvars, xvars, hvars>>
OnlyDefaults == UNCHANGED <<rlvars, qvars, qtvars, rvars, wvars, evars, svars,
                            cvars, xvars, hvars>>
OnlyWindow == UNCHANGED <<rlvars, qtvars, rvars, wvars, evars, svars, dvars,
                          cvars, xvars>>
OnlyConstruct == UNCHANGED <<rlvars, qvars, qtvars, rvars, wvars, evars, svars,
                             dvars, xvars, hvars>>

Threads == 1..NumThreads
NoThread == 0

Min(a, b) == IF a <= b THEN a ELSE b
Max(a, b) == IF a >= b THEN a ELSE b
CeilDiv(a, b) == (a + b - 1) \div b

\* ------------------------------------------------------------ RateLimiter
Capacity == TokenScale * BurstSize

\* since_update beyond this value refills the bucket completely
SinceCap == CeilDiv(Capacity, RequestsPerMinute) + TickSeconds

\* the refill without its cap
Refill_NoCap(tk, elapsed) == tk + elapsed * RequestsPerMinute

\* lines 131-135: tokens = min(burst_size, tokens + elapsed * rate)
Refill(tk, elapsed) == Min(Capacity, tk + elapsed * RequestsPerMinute)

\* line 141 with deque(maxlen=requests_per_minute), line 106
AppendTime(times) ==
    IF Len(times) < RequestsPerMinute
    THEN Append(times, 0)
    ELSE Append(Tail(times), 0)

\* lines 170-171: sum(1 for t in request_times if t > current_time - 60)
RecentRequests(times) ==
    Cardinality({i \in 1..Len(times) : times[i] < RateWindow})

\* `with self.lock` on a threading.Lock: enter only when nobody holds it
LockFree(l) == l = NoThread

Res(kind, val) == [kind |-> kind, val |-> val]

InitRL ==
    /\ tokens = Capacity
    /\ since_update = 0
    /\ request_times = <<>>
    /\ lock = NoThread
    /\ pc = [t \in Threads |-> "idle"]
    /\ op = [t \in Threads |-> "none"]
    /\ want = [t \in Threads |-> 0]
    /\ blocking = [t \in Threads |-> FALSE]
    /\ depth = [t \in Threads |-> 0]
    /\ sleep_left = [t \in Threads |-> 0]
    /\ result = [t \in Threads |-> Res("none", 0)]
    /\ fresh = 0
    /\ grants = <<>>

\* a thread calls limiter.acquire(n, blocking)
CallAcquire(t) ==
    /\ OnlyRateLimiter
    /\ pc[t] = "idle"
    /\ \E n \in 1..(BurstSize + 1), b \in BOOLEAN :
          /\ want' = [want EXCEPT ![t] = n]
          /\ blocking' = [blocking EXCEPT ![t] = b]
    /\ op' = [op EXCEPT ![t] = "acquire"]
    /\ depth' = [depth EXCEPT ![t] = 0]
    /\ pc' = [pc EXCEPT ![t] = "enter"]
    /\ result' = [result EXCEPT ![t] = Res("pending", 0)]
    /\ UNCHANGED <<tokens, since_update, request_times, lock, sleep_left, fresh,
                   grants>>

\* a thread calls limiter.get_current_rate() or limiter.reset()
CallOther(t) ==
    /\ OnlyRateLimiter
    /\ pc[t] = "idle"
    /\ \E o \in {"get_current_rate", "reset"} : op' = [op EXCEPT ![t] = o]
    /\ want' = [want EXCEPT ![t] = 0]
    /\ blocking' = [blocking EXCEPT ![t] = FALSE]
    /\ depth' = [depth EXCEPT ![t] = 0]
    /\ pc' = [pc EXCEPT ![t] = "enter"]
    /\ result' = [result EXCEPT ![t] = Res("pending", 0)]
    /\ UNCHANGED <<tokens, since_update, request_times, lock, sleep_left, fresh,
                   grants>>

\* `with self.lock:` (lines 127, 167, 176)
Lock(t) ==
    /\ OnlyRateLimiter
    /\ pc[t] = "enter"
    /\ LockFree(lock)
    /\ lock' = t
    /\ pc' = [pc EXCEPT ![t] = "body"]
    /\ UNCHANGED <<tokens, since_update, request_times, op, want, blocking,
                   depth, sleep_left, result, fresh, grants>>

\* Leaving the `with` block of the frame at depth d with outcome r.  The
\* frame at depth 1 is the call of line 158, made inside the outer frame's
\* `with`: its exit releases the lock, and the outer frame's exit then
\* releases an unlocked Lock, which raises RuntimeError.
Outcome(d, r) == IF d = 0 THEN r ELSE Res("RuntimeError", 0)

\* wait_time of lines 147 and 155, as the numerator over requests_per_minute
WaitNum(n, lvl) == TokenScale * n - lvl

\* a grant that costs one token whatever n is
Deduct_OneToken(lvl, n) == lvl - TokenScale

\* the bucket after `acquire` has granted n tokens (line 140)
Deduct(lvl, n) == lvl - TokenScale * n

\* the comparison of line 139 made strict
Enough_Strict(lvl, n) == lvl > TokenScale * n

\* line 139: enough tokens?
Enough(lvl, n) == lvl >= TokenScale * n

\* lines 140-141: one more granted call of n tokens at this instant
Granted(gs, n) ==
    IF gs # <<>> /\ gs[Len(gs)].age = 0
    THEN [gs EXCEPT ![Len(gs)].n = @ + n, ![Len(gs)].calls = @ + 1]
    ELSE Append(gs, [age |-> 0, n |-> n, calls |-> 1])

\* the call of thread t is over: every frame's `with` block is left, the
\* lock is released and the thread holds no arguments any more
Return(t) ==
    /\ lock' = NoThread
    /\ pc' = [pc EXCEPT ![t] = "idle"]
    /\ op' = [op EXCEPT ![t] = "none"]
    /\ want' = [want EXCEPT ![t] = 0]
    /\ blocking' = [blocking EXCEPT ![t] = FALSE]
    /\ depth' = [depth EXCEPT ![t] = 0]

FreshAfter(t, granted) ==
    IF fresh >= 0 /\ want[t] = 1 /\ since_update = 0
    THEN (IF granted THEN fresh + 1 ELSE fresh)
    ELSE -1

\* body of acquire, lines 128-157, executed under the lock
AcquireBody(t) ==
    /\ OnlyRateLimiter
    /\ pc[t] = "body"
    /\ op[t] = "acquire"
    /\ lock = t
    /\ LET lvl == Refill(tokens, since_update) IN
       /\ since_update' = 0
       /\ IF Enough(lvl, want[t])
          THEN /\ tokens' = Deduct(lvl, want[t])
               /\ request_times' = AppendTime(request_times)
               /\ result' = [result EXCEPT ![t] = Outcome(depth[t], Res("True", 0))]
               /\ fresh' = FreshAfter(t, TRUE)
               /\ grants' = Granted(grants, want[t])
               /\ Return(t)
               /\ UNCHANGED sleep_left
          ELSE IF ~blocking[t]
          THEN /\ tokens' = lvl
               /\ result' = [result EXCEPT ![t] =
                     Outcome(depth[t],
                             Res("RateLimitExceeded", WaitNum(want[t], lvl)))]
               /\ fresh' = FreshAfter(t, FALSE)
               /\ UNCHANGED grants
               /\ Return(t)
               /\ UNCHANGED <<request_times, sleep_left>>
          ELSE /\ tokens' = lvl
               /\ sleep_left' = [sleep_left EXCEPT ![t] =
                     CeilDiv(WaitNum(want[t], lvl), RequestsPerMinute)]
               /\ pc' = [pc EXCEPT ![t] = "sleep"]
               /\ fresh' = -1
               /\ UNCHANGED <<request_times, result, lock, op, want, blocking,
                              depth, grants>>

\* line 157 returns, line 158 calls self.acquire(tokens, blocking=False)
Wake(t) ==
    /\ OnlyRateLimiter
    /\ pc[t] = "sleep"
    /\ sleep_left[t] = 0
    /\ pc' = [pc EXCEPT ![t] = "enter"]
    /\ depth' = [depth EXCEPT ![t] = depth[t] + 1]
    /\ blocking' = [blocking EXCEPT ![t] = FALSE]
    /\ UNCHANGED <<tokens, since_update, request_times, lock, op, want,
                   sleep_left, result, fresh, grants>>

\* get_current_rate, lines 167-172
GetCurrentRateBody(t) ==
    /\ OnlyRateLimiter
    /\ pc[t] = "body"
    /\ op[t] = "get_current_rate"
    /\ lock = t
    /\ result' = [result EXCEPT ![t] = Res("rate", RecentRequests(request_times))]
    /\ Return(t)
    /\ UNCHANGED <<tokens, since_update, request_times, sleep_left, fresh,
                   grants>>

\* a reset that forgets the timestamps and leaves the bucket as it is
ResetBody_KeepsTokens(t) ==
    /\ OnlyRateLimiter
    /\ pc[t] = "body"
    /\ op[t] = "reset"
    /\ lock = t
    /\ tokens' = tokens
    /\ since_update' = 0
    /\ request_times' = <<>>
    /\ result' = [result EXCEPT ![t] = Res("None", 0)]
    /\ Return(t)
    /\ fresh' = 0
    /\ grants' = <<>>
    /\ UNCHANGED sleep_left

\* reset, lines 176-180
ResetBody(t) ==
    /\ OnlyRateLimiter
    /\ pc[t] = "body"
    /\ op[t] = "reset"
    /\ lock = t
    /\ tokens' = Capacity
    /\ since_update' = 0
    /\ request_times' = <<>>
    /\ result' = [result EXCEPT ![t] = Res("None", 0)]
    /\ Return(t)
    /\ fresh' = 0
    /\ grants' = <<>>
    /\ UNCHANGED sleep_left

\* the grants TickSeconds later: those that stay inside the trailing window
StillRecent(g) == g.age + TickSeconds < RateWindow
Older(g) == [g EXCEPT !.age = @ + TickSeconds]
Aged(gs) ==
    LET recent == SelectSeq(gs, StillRecent)
    IN  [i \in 1..Len(recent) |-> Older(recent[i])]

\* the wall clock advances by TickSeconds
TickRL ==
    /\ OnlyRateLimiter
    /\ since_update' = Min(since_update + TickSeconds, SinceCap)
    /\ request_times' = [i \in 1..Len(request_times) |->
                            Min(request_times[i] + TickSeconds, RateWindow)]
    /\ sleep_left' = [t \in Threads |-> Max(sleep_left[t] - TickSeconds, 0)]
    /\ fresh' = -1
    /\ grants' = Aged(grants)
    /\ UNCHANGED <<tokens, lock, pc, op, want, blocking, depth, result>>

\* ----------------------------------------------------------- QuotaManager
\* bounds: the QuotaConfig under test and the call arguments
QuotaPerMinute == 2
QuotaPerHour == 3
QuotaPerDay == 4
TokensPerMinute == 2
TokensPerDay == 3
MaxCost == 2
MaxTokens == 2
MaxTicks == 2

\* program constants: the window lengths of _reset_if_needed
MinuteSeconds == 60
HourSeconds == 3600
DaySeconds == 86400

\* clock advances offered to the model
ClockSteps == {MinuteSeconds \div 2, MinuteSeconds, HourSeconds, DaySeconds}

\* QuotaConfig, lines 20-27
config ==
    [requests_per_minute |-> QuotaPerMinute,
     requests_per_hour   |-> QuotaPerHour,
     requests_per_day    |-> QuotaPerDay,
     tokens_per_minute   |-> TokensPerMinute,
     tokens_per_day      |-> TokensPerDay]

\* QuotaUsage(), lines 31-43, constructed at time now
QuotaUsage(now) ==
    [total_requests |-> 0, total_tokens |-> 0,
     requests_this_minute |-> 0, requests_this_hour |-> 0,
     requests_this_day |-> 0,
     tokens_this_minute |-> 0, tokens_this_day |-> 0,
     last_reset_minute |-> now, last_reset_hour |-> now,
     last_reset_day |-> now]

\* _reset_if_needed, lines 284-306
reset_minute(u, now) ==
    IF now - u.last_reset_minute >= MinuteSeconds
    THEN [u EXCEPT !.requests_this_minute = 0, !.tokens_this_minute = 0,
                   !.last_reset_minute = now]
    ELSE u

\* the hour window reset after the minute window's duration
reset_hour_AfterMinute(u, now) ==
    IF now - u.last_reset_hour >= MinuteSeconds
    THEN [u EXCEPT !.requests_this_hour = 0, !.last_reset_hour = now]
    ELSE u

reset_hour(u, now) ==
    IF now - u.last_reset_hour >= HourSeconds
    THEN [u EXCEPT !.requests_this_hour = 0, !.last_reset_hour = now]
    ELSE u

reset_day(u, now) ==
    IF now - u.last_reset_day >= DaySeconds
    THEN [u EXCEPT !.requests_this_day = 0, !.tokens_this_day = 0,
                   !.last_reset_day = now]
    ELSE u

reset_if_needed(u, now) == reset_day(reset_hour(reset_minute(u, now), now), now)

\* the checks made on the current usage, without the cost of the call
first_violation_NoCost(u, tk, cost) ==
    IF u.requests_this_minute > config.requests_per_minute THEN "minute"
    ELSE IF u.requests_this_hour > config.requests_per_hour THEN "hour"
    ELSE IF u.requests_this_day > config.requests_per_day THEN "day"
    ELSE IF tk > 0 /\ u.tokens_this_minute > config.tokens_per_minute
         THEN "minute_tokens"
    ELSE IF tk > 0 /\ u.tokens_this_day > config.tokens_per_day
         THEN "day_tokens"
    ELSE "none"

\* the checks with the hour check made before the minute check
first_violation_HourFirst(u, tk, cost) ==
    IF u.requests_this_hour + cost > config.requests_per_hour THEN "hour"
    ELSE IF u.requests_this_minute + cost > config.requests_per_minute THEN "minute"
    ELSE IF u.requests_this_day + cost > config.requests_per_day THEN "day"
    ELSE IF tk > 0 /\ u.tokens_this_minute + tk > config.tokens_per_minute
         THEN "minute_tokens"
    ELSE IF tk > 0 /\ u.tokens_this_day + tk > config.tokens_per_day
         THEN "day_tokens"
    ELSE "none"

\* the checks of check_and_increment, lines 230-268: the quota_type of the
\* QuotaExceeded raised, or "none" when every check passes
first_violation(u, tk, cost) ==
    IF u.requests_this_minute + cost > config.requests_per_minute THEN "minute"
    ELSE IF u.requests_this_hour + cost > config.requests_per_hour THEN "hour"
    ELSE IF u.requests_this_day + cost > config.requests_per_day THEN "day"
    ELSE IF tk > 0 /\ u.tokens_this_minute + tk > config.tokens_per_minute
         THEN "minute_tokens"
    ELSE IF tk > 0 /\ u.tokens_this_day + tk > config.tokens_per_day
         THEN "day_tokens"
    ELSE "none"

\* lines 271-277
increment(u, tk, cost) ==
    [u EXCEPT !.total_requests = @ + cost,
              !.total_tokens = @ + tk,
              !.requests_this_minute = @ + cost,
              !.requests_this_hour = @ + cost,
              !.requests_this_day = @ + cost,
              !.tokens_this_minute = @ + tk,
              !.tokens_this_day = @ + tk]

\* check_and_increment counting the request before it checks the tokens
check_and_increment_Partial(u, tk, cost, now) ==
    LET r == reset_if_needed(u, now)
        v == first_violation(r, tk, cost)
        counted == [r EXCEPT !.total_requests = @ + cost,
                             !.requests_this_minute = @ + cost,
                             !.requests_this_hour = @ + cost,
                             !.requests_this_day = @ + cost]
    IN  IF v \in {"minute", "hour", "day"}
        THEN [usage |-> r, raised |-> v]
        ELSE IF v # "none"
        THEN [usage |-> counted, raised |-> v]
        ELSE [usage |-> increment(r, tk, cost), raised |-> "none"]

\* check_and_increment, lines 227-282, as one critical section
check_and_increment(u, tk, cost, now) ==
    LET r == reset_if_needed(u, now)
        v == first_violation(r, tk, cost)
    IN  IF v # "none"
        THEN [usage |-> r, raised |-> v]
        ELSE [usage |-> increment(r, tk, cost), raised |-> "none"]

\* the dictionary returned by get_usage_stats, lines 318-340
usage_stats(u) ==
    [total_requests |-> u.total_requests,
     total_tokens |-> u.total_tokens,
     current_minute |->
        [requests |-> u.requests_this_minute,
         limit |-> config.requests_per_minute,
         remaining |-> config.requests_per_minute - u.requests_this_minute,
         tokens |-> u.tokens_this_minute,
         token_limit |-> config.tokens_per_minute],
     current_hour |->
        [requests |-> u.requests_this_hour,
         limit |-> config.requests_per_hour,
         remaining |-> config.requests_per_hour - u.requests_this_hour],
     current_day |->
        [requests |-> u.requests_this_day,
         limit |-> config.requests_per_day,
         remaining |-> config.requests_per_day - u.requests_this_day,
         tokens |-> u.tokens_this_day,
         token_limit |-> config.tokens_per_day]]

\* get_usage_stats, lines 315-340
get_usage_stats(u, now) ==
    LET r == reset_if_needed(u, now)
    IN  [usage |-> r, stats |-> usage_stats(r)]

Last(o, tk, cost, raised) ==
    [op |-> o, tokens |-> tk, cost |-> cost, raised |-> raised]

InitQ ==
    /\ usage = QuotaUsage(0)
    /\ qnow = 0
    /\ qticks = 0
    /\ qlast = Last("init", 0, 0, "none")

CheckAndIncrement ==
    \E tk \in 0..MaxTokens, cost \in 0..MaxCost :
        LET r == check_and_increment(usage, tk, cost, qnow) IN
        /\ OnlyQuota
        /\ usage' = r.usage
        /\ qlast' = Last("check_and_increment", tk, cost, r.raised)
        /\ UNCHANGED <<qnow, qticks>>

GetUsageStats ==
    /\ OnlyQuota
    /\ usage' = get_usage_stats(usage, qnow).usage
    /\ qlast' = Last("get_usage_stats", 0, 0, "none")
    /\ UNCHANGED <<qnow, qticks>>

\* QuotaManager.reset, lines 344-346
QuotaReset ==
    /\ OnlyQuota
    /\ usage' = QuotaUsage(qnow)
    /\ qlast' = Last("reset", 0, 0, "none")
    /\ UNCHANGED <<qnow, qticks>>

\* the wall clock advances
QuotaTick ==
    /\ OnlyQuota
    /\ qticks < MaxTicks
    /\ \E dt \in ClockSteps : qnow' = qnow + dt
    /\ qticks' = qticks + 1
    /\ UNCHANGED <<usage, qlast>>

\* ------------------------------- QuotaManager across its window boundaries
\* bound
MaxWindowTicks == 2

\* clock advances that put a call shortly before the end of a window
WindowSteps == {MinuteSeconds \div 2, MinuteSeconds, HourSeconds - MinuteSeconds \div 2}

InitWindow == recent_cost = <<>>

RECURSIVE SumCost(_)
SumCost(rs) == IF rs = <<>> THEN 0 ELSE rs[1].cost + SumCost(Tail(rs))

\* the admitted cost joins what was admitted at the same instant
Admit(rs, cost) ==
    IF rs # <<>> /\ rs[Len(rs)].age = 0
    THEN [rs EXCEPT ![Len(rs)].cost = @ + cost]
    ELSE Append(rs, [age |-> 0, cost |-> cost])

\* dt seconds later: what is 60 s old or older is no longer recent
AgedBy(rs, dt) ==
    LET InWindow(r) == r.age + dt < MinuteSeconds
        kept == SelectSeq(rs, InWindow)
    IN  [i \in 1..Len(kept) |-> [kept[i] EXCEPT !.age = @ + dt]]

\* check_and_increment(tokens=tk, cost=cost), lines 227-282
WindowCall ==
    \E tk \in 0..MaxTokens, cost \in 0..MaxCost :
        LET r == check_and_increment(usage, tk, cost, qnow) IN
        /\ OnlyWindow
        /\ usage' = r.usage
        /\ qlast' = Last("check_and_increment", tk, cost, r.raised)
        /\ recent_cost' = IF r.raised = "none" /\ cost > 0
                          THEN Admit(recent_cost, cost) ELSE recent_cost
        /\ UNCHANGED <<qnow, qticks>>

\* the wall clock advances
WindowTick ==
    /\ OnlyWindow
    /\ qticks < MaxWindowTicks
    /\ \E dt \in WindowSteps :
          /\ qnow' = qnow + dt
          /\ recent_cost' = AgedBy(recent_cost, dt)
    /\ qticks' = qticks + 1
    /\ UNCHANGED <<usage, qlast>>

\* ------------------------------------ QuotaManager under concurrent callers
\* the counters in the order lines 271-277 increment them
Counters ==
    <<"total_requests", "total_tokens", "requests_this_minute",
      "requests_this_hour", "requests_this_day", "tokens_this_minute",
      "tokens_this_day">>

RequestCounters ==
    {"total_requests", "requests_this_minute", "requests_this_hour",
     "requests_this_day"}

\* what one call adds to counter f (lines 271-277)
Delta(f, tk, cost) == IF f \in RequestCounters THEN cost ELSE tk

\* a lock that never makes a caller wait
QuotaLockFree_Always(l) == TRUE

\* `with self.lock` of line 227: enter only when nobody holds the lock
QuotaLockFree(l) == l = NoThread

ZeroCounters == [i \in 1..Len(Counters) |-> 0]

InitQT ==
    /\ qlock = NoThread
    /\ qpc = [t \in Threads |-> "idle"]
    /\ qtok = [t \in Threads |-> 0]
    /\ qcost = [t \in Threads |-> 0]
    /\ qidx = [t \in Threads |-> 0]
    /\ qtmp = [t \in Threads |-> 0]
    /\ admitted = ZeroCounters

\* a thread calls manager.check_and_increment(tokens, cost)
QCall(t) ==
    /\ OnlyQuotaThreads
    /\ qpc[t] = "idle"
    /\ \E tk \in {0, MaxTokens}, cost \in {1, MaxCost} :
          /\ qtok' = [qtok EXCEPT ![t] = tk]
          /\ qcost' = [qcost EXCEPT ![t] = cost]
    /\ qpc' = [qpc EXCEPT ![t] = "enter"]
    /\ UNCHANGED <<usage, qnow, qticks, qlast, qlock, qidx, qtmp, admitted>>

\* line 227
QLock(t) ==
    /\ OnlyQuotaThreads
    /\ qpc[t] = "enter"
    /\ QuotaLockFree(qlock)
    /\ qlock' = t
    /\ qpc' = [qpc EXCEPT ![t] = "reset"]
    /\ UNCHANGED <<usage, qnow, qticks, qlast, qtok, qcost, qidx, qtmp,
                   admitted>>

\* the sums restart with the counters that _reset_if_needed zeroes
AdmittedAfterReset(u, r) ==
    [i \in 1..Len(Counters) |->
        IF \/ /\ Counters[i] \in {"requests_this_minute", "tokens_this_minute"}
              /\ r.last_reset_minute # u.last_reset_minute
           \/ /\ Counters[i] = "requests_this_hour"
              /\ r.last_reset_hour # u.last_reset_hour
           \/ /\ Counters[i] \in {"requests_this_day", "tokens_this_day"}
              /\ r.last_reset_day # u.last_reset_day
        THEN 0 ELSE admitted[i]]

\* line 228
QResetStep(t) ==
    /\ OnlyQuotaThreads
    /\ qpc[t] = "reset"
    /\ LET r == reset_if_needed(usage, qnow) IN
       /\ usage' = r
       /\ admitted' = AdmittedAfterReset(usage, r)
    /\ qpc' = [qpc EXCEPT ![t] = "check"]
    /\ UNCHANGED <<qnow, qticks, qlast, qlock, qtok, qcost, qidx, qtmp>>

\* lines 230-268; a raise leaves the `with` block and releases the lock
QCheck(t) ==
    /\ OnlyQuotaThreads
    /\ qpc[t] = "check"
    /\ LET v == first_violation(usage, qtok[t], qcost[t]) IN
       IF v # "none"
       THEN /\ qlock' = NoThread
            /\ qpc' = [qpc EXCEPT ![t] = "idle"]
            /\ qtok' = [qtok EXCEPT ![t] = 0]
            /\ qcost' = [qcost EXCEPT ![t] = 0]
            /\ UNCHANGED <<qidx, admitted>>
       ELSE /\ qpc' = [qpc EXCEPT ![t] = "load"]
            /\ qidx' = [qidx EXCEPT ![t] = 1]
            /\ admitted' = [i \in 1..Len(Counters) |->
                              admitted[i] + Delta(Counters[i], qtok[t], qcost[t])]
            /\ UNCHANGED <<qlock, qtok, qcost>>
    /\ UNCHANGED <<usage, qnow, qticks, qlast, qtmp>>

\* lines 271-277: each `x += d` reads x ...
QLoad(t) ==
    /\ OnlyQuotaThreads
    /\ qpc[t] = "load"
    /\ qtmp' = [qtmp EXCEPT ![t] = usage[Counters[qidx[t]]]]
    /\ qpc' = [qpc EXCEPT ![t] = "store"]
    /\ UNCHANGED <<usage, qnow, qticks, qlast, qlock, qtok, qcost, qidx,
                   admitted>>

\* ... and then writes x + d
QStore(t) ==
    /\ OnlyQuotaThreads
    /\ qpc[t] = "store"
    /\ usage' = [usage EXCEPT ![Counters[qidx[t]]] =
                    qtmp[t] + Delta(Counters[qidx[t]], qtok[t], qcost[t])]
    /\ IF qidx[t] < Len(Counters)
       THEN /\ qidx' = [qidx EXCEPT ![t] = qidx[t] + 1]
            /\ qpc' = [qpc EXCEPT ![t] = "load"]
       ELSE /\ qidx' = [qidx EXCEPT ![t] = 0]
            /\ qpc' = [qpc EXCEPT ![t] = "exit"]
    /\ qtmp' = [qtmp EXCEPT ![t] = 0]
    /\ UNCHANGED <<qnow, qticks, qlast, qlock, qtok, qcost, admitted>>

\* end of the `with` block, line 282
QExit(t) ==
    /\ OnlyQuotaThreads
    /\ qpc[t] = "exit"
    /\ qlock' = NoThread
    /\ qpc' = [qpc EXCEPT ![t] = "idle"]
    /\ qtok' = [qtok EXCEPT ![t] = 0]
    /\ qcost' = [qcost EXCEPT ![t] = 0]
    /\ UNCHANGED <<usage, qnow, qticks, qlast, qidx, qtmp, admitted>>

MaxThreadTicks == 2

\* clock advances offered while threads are inside check_and_increment
ThreadClockSteps == {MinuteSeconds, HourSeconds}

QThreadsTick ==
    /\ OnlyQuotaThreads
    /\ qticks < MaxThreadTicks
    /\ \E dt \in ThreadClockSteps : qnow' = qnow + dt
    /\ qticks' = qticks + 1
    /\ UNCHANGED <<usage, qlast, qlock, qpc, qtok, qcost, qidx, qtmp, admitted>>

\* ----------------------------------------------------------- RetryHandler
\* bounds
MaxMaxRetries == 3
MaxAttempt == 4

\* the exception classes: retry_handler.py lines 65-87 and Python built-ins
Base ==
    [RetryableError |-> "Exception",
     RateLimitError |-> "RetryableError",
     ServiceUnavailableError |-> "RetryableError",
     TimeoutError |-> "RetryableError",
     APIError |-> "Exception",
     CustomRetryable |-> "RateLimitError",
     OSError |-> "Exception",
     ConnectionError |-> "OSError",
     ConnectionResetError |-> "ConnectionError",
     BuiltinTimeoutError |-> "OSError",
     ValueError |-> "Exception",
     Exception |-> "BaseException"]

ExceptionClasses == DOMAIN Base

\* the classes c such that an instance of class k is an instance of c
RECURSIVE Ancestors(_)
Ancestors(k) == IF k \in DOMAIN Base THEN {k} \cup Ancestors(Base[k]) ELSE {k}

\* isinstance(exception, classes) for a tuple of classes
isinstance(k, classes) == \E i \in 1..Len(classes) : classes[i] \in Ancestors(k)

\* RetryHandler.RETRYABLE_EXCEPTIONS, lines 99-106; the name TimeoutError
\* there is the module's own class of line 80
RETRYABLE_EXCEPTIONS ==
    <<"RetryableError", "RateLimitError", "ServiceUnavailableError",
      "TimeoutError", "ConnectionError", "TimeoutError">>

\* should_retry that does not look at the class of the exception
should_retry_AnyClass(exception, attempt, retries) ==
    IF attempt >= retries THEN FALSE
    ELSE TRUE

\* should_retry allowing one attempt too many
should_retry_OffByOne(exception, attempt, retries) ==
    IF attempt > retries THEN FALSE
    ELSE isinstance(exception, RETRYABLE_EXCEPTIONS)

\* should_retry, lines 135-138
should_retry(exception, attempt, retries) ==
    IF attempt >= retries THEN FALSE
    ELSE isinstance(exception, RETRYABLE_EXCEPTIONS)

InitRetry ==
    /\ max_retries = 3
    /\ r_exception = "none"
    /\ r_attempt = 0
    /\ r_result = FALSE

\* RetryHandler(RetryConfig(max_retries=m)), lines 39 and 115
NewHandler ==
    /\ OnlyRetry
    /\ \E m \in 0..MaxMaxRetries : max_retries' = m
    /\ r_exception' = "none"
    /\ r_attempt' = 0
    /\ r_result' = FALSE

ShouldRetry ==
    /\ OnlyRetry
    /\ \E e \in ExceptionClasses, a \in 0..MaxAttempt :
          /\ r_exception' = e
          /\ r_attempt' = a
          /\ r_result' = should_retry(e, a, max_retries)
    /\ UNCHANGED max_retries

\* ------------------------------------------------ RetryConfig.get_wait_time
\* bounds
MaxInitialDelay == 2
MaxHalfFactor == 5
SmallMaxWait == 10
MaxBackoffAttempt == 5
JitterSteps == 4

\* program constants: the defaults of RetryConfig, lines 23-25
DefaultInitialDelay == 1
DefaultBackoffFactor == 2
DefaultMaxWaitTime == 60

\* A RetryConfig but for max_retries.  backoff_factor is kept in halves
\* (half_factor / 2), so that 1.5 and 2.5 are configurations; a time is a
\* fraction num / den of a second.
RetryConfigs ==
    [initial_delay : 1..MaxInitialDelay,
     half_factor   : 2..MaxHalfFactor,
     max_wait_time : {SmallMaxWait, DefaultMaxWaitTime},
     jitter        : BOOLEAN]

\* RetryConfig(), lines 21-27
DefaultRetryConfig ==
    [initial_delay |-> DefaultInitialDelay,
     half_factor   |-> 2 * DefaultBackoffFactor,
     max_wait_time |-> DefaultMaxWaitTime,
     jitter        |-> TRUE]

RECURSIVE Pow(_, _)
Pow(b, n) == IF n = 0 THEN 1 ELSE b * Pow(b, n - 1)

Frac(n, d) == [num |-> n, den |-> d]
FracLeq(a, b) == a.num * b.den <= b.num * a.den
FracLess(a, b) == a.num * b.den < b.num * a.den
FracEq(a, b) == a.num * b.den = b.num * a.den
FracTimes(a, b) == Frac(a.num * b.num, a.den * b.den)

\* initial_delay * backoff_factor ** attempt, line 55
exponential(cfg, a) == Frac(cfg.initial_delay * Pow(cfg.half_factor, a), Pow(2, a))

\* min(wait_time, max_wait_time), line 56
capped(cfg, w) ==
    IF FracLeq(w, Frac(cfg.max_wait_time, 1)) THEN w ELSE Frac(cfg.max_wait_time, 1)

\* 0.5 + random.random(), line 60, with random.random() = k / JitterSteps
jitter_factor(k) == Frac(JitterSteps + 2 * k, 2 * JitterSteps)

\* get_wait_time without the cap of line 56
get_wait_time_NoCap(cfg, a, k) ==
    LET w == exponential(cfg, a)
    IN  IF cfg.jitter THEN FracTimes(w, jitter_factor(k)) ELSE w

\* get_wait_time, lines 45-62; k is the draw of random.random()
get_wait_time(cfg, a, k) ==
    LET w == capped(cfg, exponential(cfg, a))
    IN  IF cfg.jitter THEN FracTimes(w, jitter_factor(k)) ELSE w

InitBackoff ==
    /\ w_config = DefaultRetryConfig
    /\ w_attempt = -1
    /\ w_random = 0
    /\ w_result = Frac(0, 1)
    /\ w_prev = Frac(0, 1)

\* config.get_wait_time(a), and config.get_wait_time(a - 1) with the same draw
GetWaitTime ==
    /\ OnlyBackoff
    /\ \E cfg \in RetryConfigs, a \in 0..MaxBackoffAttempt, k \in 0..(JitterSteps - 1) :
          /\ w_config' = cfg
          /\ w_attempt' = a
          /\ w_random' = k
          /\ w_result' = get_wait_time(cfg, a, k)
          /\ w_prev' = IF a > 0 THEN get_wait_time(cfg, a - 1, k) ELSE Frac(0, 1)

\* ------------------------------------------ RetryHandler.execute_with_retry
\* bounds
MaxHistory == 5
TightMaxWait == 2

\* what func can raise: one class of each way through should_retry
FnRaises == {"RateLimitError", "ConnectionResetError", "BuiltinTimeoutError", "ValueError"}

\* a RetryConfig whose max_wait_time cuts the second backoff, without jitter
TightRetryConfig ==
    [DefaultRetryConfig EXCEPT !.max_wait_time = TightMaxWait, !.jitter = FALSE]

\* type(e).__name__, line 179
type_name(k) == IF k = "BuiltinTimeoutError" THEN "TimeoutError" ELSE k

NoOutcome == [kind |-> "none", class |-> "none", call |-> 0]
\* a value that is not the one func returned
Value_Lost(i) == [kind |-> "value", class |-> "none", call |-> 0]

\* the value returned by the i-th invocation of func, line 170
Value(i) == [kind |-> "value", class |-> "none", call |-> i]

\* a new exception in place of the one func raised
Raised_Wrapped(k, i) == [kind |-> "exception", class |-> "Exception", call |-> 0]

\* the exception of class k raised by the i-th invocation of func, re-raised
\* by line 185 or 195
Raised(k, i) == [kind |-> "exception", class |-> k, call |-> i]

InitExecute ==
    /\ retry_config = DefaultRetryConfig
    /\ attempt_history = <<>>
    /\ e_pc = "idle"
    /\ e_async = FALSE
    /\ e_attempt = 0
    /\ fn_log = <<>>
    /\ sleeps = <<>>
    /\ e_outcome = NoOutcome
    /\ failed_calls = 0

\* RetryHandler(RetryConfig(...)), lines 108-116
NewRetryHandler ==
    /\ OnlyExecute
    /\ e_pc \in {"idle", "returned", "raised"}
    /\ \E m \in 0..MaxMaxRetries : max_retries' = m
    /\ \E cfg \in {DefaultRetryConfig, TightRetryConfig} : retry_config' = cfg
    /\ attempt_history' = <<>>
    /\ e_pc' = "idle"
    /\ e_async' = FALSE
    /\ e_attempt' = 0
    /\ fn_log' = <<>>
    /\ sleeps' = <<>>
    /\ e_outcome' = NoOutcome
    /\ failed_calls' = 0

\* the state at line 162 (and 219), about to enter the loop
enter_loop(async) ==
    /\ e_pc' = "call"
    /\ e_async' = async
    /\ e_attempt' = 0
    /\ fn_log' = <<>>
    /\ sleeps' = <<>>
    /\ e_outcome' = NoOutcome

\* a call of execute_with_retry or execute_with_retry_async, up to line 162
ExecuteWithRetry ==
    /\ OnlyExecute
    /\ e_pc \in {"idle", "returned", "raised"}
    /\ Len(attempt_history) + max_retries + 1 <= MaxHistory
    /\ \E async \in BOOLEAN : enter_loop(async)
    /\ UNCHANGED <<max_retries, retry_config, attempt_history, failed_calls>>

\* the record appended by lines 176-181
AttemptRecord(a, k) == [attempt |-> a, exception_type |-> type_name(k)]

\* one pass of the loop body from the invocation of func (line 165) to the
\* return, the raise or the start of the sleep; out is what func does
Attempt_NoRecord(out) ==
    LET i == Len(fn_log) + 1
    IN  /\ fn_log' = Append(fn_log, out)
        /\ IF out = "ok"
           THEN /\ e_pc' = "returned"
                /\ e_outcome' = Value(i)
                /\ UNCHANGED <<attempt_history, failed_calls, sleeps>>
           ELSE /\ failed_calls' = failed_calls + 1
                /\ UNCHANGED attempt_history
                /\ IF ~should_retry(out, e_attempt, max_retries)
                   THEN /\ e_pc' = "raised"
                        /\ e_outcome' = Raised(out, i)
                        /\ UNCHANGED sleeps
                   ELSE /\ e_pc' = "sleep"
                        /\ \E k \in {0, JitterSteps - 1} :
                              sleeps' = Append(sleeps, get_wait_time(retry_config, e_attempt, k))
                        /\ UNCHANGED e_outcome

Attempt(out) ==
    LET i == Len(fn_log) + 1
    IN  /\ fn_log' = Append(fn_log, out)
        /\ IF out = "ok"
           THEN /\ e_pc' = "returned"
                /\ e_outcome' = Value(i)
                /\ UNCHANGED <<attempt_history, failed_calls, sleeps>>
           ELSE /\ failed_calls' = failed_calls + 1
                /\ attempt_history' = Append(attempt_history, AttemptRecord(e_attempt, out))
                /\ IF ~should_retry(out, e_attempt, max_retries)
                   THEN /\ e_pc' = "raised"
                        /\ e_outcome' = Raised(out, i)
                        /\ UNCHANGED sleeps
                   ELSE /\ e_pc' = "sleep"
                        /\ \E k \in {0, JitterSteps - 1} :
                              sleeps' = Append(sleeps, get_wait_time(retry_config, e_attempt, k))
                        /\ UNCHANGED e_outcome

\* lines 163-192 (221-249)
Invoke ==
    /\ OnlyExecute
    /\ e_pc = "call"
    /\ \E out \in FnRaises \cup {"ok"} : Attempt(out)
    /\ UNCHANGED <<max_retries, retry_config, e_async, e_attempt>>

\* time.sleep / asyncio.sleep returns and the loop goes on; past the last
\* pass it falls to lines 194-195, raise last_exception
SleepDone ==
    /\ OnlyExecute
    /\ e_pc = "sleep"
    /\ e_attempt' = e_attempt + 1
    /\ IF e_attempt + 1 <= max_retries
       THEN e_pc' = "call" /\ UNCHANGED e_outcome
       ELSE /\ e_pc' = "raised"
            /\ e_outcome' = Raised(fn_log[Len(fn_log)], Len(fn_log))
    /\ UNCHANGED <<max_retries, retry_config, attempt_history, e_async, fn_log,
                   sleeps, failed_calls>>

\* clear_history, lines 258-260
ClearHistory ==
    /\ OnlyExecute
    /\ e_pc \in {"idle", "returned", "raised"}
    /\ attempt_history' = <<>>
    /\ failed_calls' = 0
    /\ UNCHANGED <<max_retries, retry_config, e_pc, e_async, e_attempt, fn_log,
                   sleeps, e_outcome>>

\* ----------------------------------------------------------- GeminiService
NoResult == [kind |-> "none", class |-> "none", original |-> "none"]

\* GeminiService(), lines 49-128: both features enabled by default
InitService ==
    /\ enable_rate_limiting = TRUE
    /\ enable_quota_management = TRUE
    /\ g_pc = "idle"
    /\ g_method = "none"
    /\ g_left = 0
    /\ g_events = <<>>
    /\ g_result = NoResult

\* bounds
MaxServiceRetries == 1
MaxPrompts == 2
MaxServiceHistory == 2
ServiceMaxTokens == 1

\* the thread that calls the service
Caller == 1

\* what self._client.invoke / self._client.stream can raise
TransportRaises == {"RateLimitError", "ValueError"}

\* what str(e).lower() of lines 252-259 contains
Messages == {"rate limit", "timeout", "authentication", "other"}

Returned == [kind |-> "returned", class |-> "none", original |-> "none"]
\* raise cls(..., original_error=e)
GeminiRaise(cls, e) == [kind |-> "raised", class |-> cls, original |-> e]

\* a pre-flight rejection handed on as it is
PreflightError_Unwrapped(e) == GeminiRaise(e, "none")

\* lines 189-195 and 203-208: the pre-flight rejection e leaves generate
\* as a GeminiRateLimitError that carries it
PreflightError(e) == GeminiRaise("GeminiRateLimitError", e)

\* lines 239-259: what generate raises for an exception of class k with
\* message msg that came out of execute_with_retry
generate_error(k, msg) ==
    IF "RetryableError" \in Ancestors(k) THEN GeminiRaise("GeminiAPIError", k)
    ELSE IF msg = "rate limit" THEN GeminiRaise("GeminiRateLimitError", k)
    ELSE IF msg = "timeout" THEN GeminiRaise("GeminiTimeoutError", k)
    ELSE IF msg = "authentication" THEN GeminiRaise("GeminiAuthenticationError", k)
    ELSE GeminiRaise("GeminiAPIError", k)

\* lines 290-292
streaming_error(k) == GeminiRaise("GeminiAPIError", k)

\* GeminiService(enable_rate_limiting=erl, enable_quota_management=eqm),
\* lines 95-119, with MAX_RETRIES of the configuration
NewService ==
    /\ g_pc = "idle"
    /\ \E erl \in BOOLEAN, eqm \in BOOLEAN :
          /\ enable_rate_limiting' = erl
          /\ enable_quota_management' = eqm
    /\ \E m \in 0..MaxServiceRetries : max_retries' = m
    /\ retry_config' = DefaultRetryConfig
    /\ attempt_history' = <<>>
    /\ failed_calls' = 0
    /\ e_pc' = "idle"
    /\ e_async' = FALSE
    /\ e_attempt' = 0
    /\ fn_log' = <<>>
    /\ sleeps' = <<>>
    /\ e_outcome' = NoOutcome
    /\ tokens' = Capacity
    /\ since_update' = 0
    /\ request_times' = <<>>
    /\ lock' = NoThread
    /\ pc' = [t \in Threads |-> "idle"]
    /\ op' = [t \in Threads |-> "none"]
    /\ want' = [t \in Threads |-> 0]
    /\ blocking' = [t \in Threads |-> FALSE]
    /\ depth' = [t \in Threads |-> 0]
    /\ sleep_left' = [t \in Threads |-> 0]
    /\ result' = [t \in Threads |-> Res("none", 0)]
    /\ fresh' = 0
    /\ grants' = <<>>
    /\ usage' = QuotaUsage(qnow)
    /\ qlast' = Last("none", 0, 0, "none")
    /\ g_method' = "none"
    /\ g_left' = 0
    /\ g_events' = <<>>
    /\ g_result' = NoResult
    /\ UNCHANGED <<g_pc, qnow, qticks, qtvars, r_exception, r_attempt, r_result,
                   wvars, dvars, cvars, xvars, hvars>>

\* a public method is called: generate, generate_streaming, or
\* batch_generate with n prompts
CallService ==
    /\ g_pc = "idle"
    /\ \E m \in {"generate", "generate_streaming", "batch_generate"} :
       \E n \in 1..MaxPrompts :
          /\ g_method' = m
          /\ g_left' = IF m = "batch_generate" THEN n ELSE 0
          /\ Len(attempt_history)
                + (IF m = "batch_generate" THEN n ELSE 1) * (max_retries + 1)
                <= MaxServiceHistory
    /\ g_pc' = "begin"
    /\ g_events' = <<>>
    /\ g_result' = NoResult
    /\ UNCHANGED <<enable_rate_limiting, enable_quota_management>>
    /\ UNCHANGED <<rlvars, qvars, qtvars, rvars, wvars, evars, dvars, cvars, xvars, hvars>>

\* a generate that goes on to the transport after the quota check rejected
FinishCall_GoesOn(res) ==
    /\ g_result' = res
    /\ IF res.original = "QuotaExceeded"
       THEN g_pc' = "transport" /\ g_left' = g_left
       ELSE IF g_method = "batch_generate" /\ g_left > 1
       THEN g_pc' = "begin" /\ g_left' = g_left - 1
       ELSE g_pc' = "idle" /\ g_left' = 0

\* the end of a generate or generate_streaming call with outcome res;
\* batch_generate (lines 314-323) keeps the outcome, whatever it is, and
\* goes on with its next prompt
FinishCall(res) ==
    /\ g_result' = res
    /\ IF g_method = "batch_generate" /\ g_left > 1
       THEN g_pc' = "begin" /\ g_left' = g_left - 1
       ELSE g_pc' = "idle" /\ g_left' = 0

\* execute_with_retry(self._client.invoke / stream, messages) is called
StartTransport ==
    /\ enter_loop(FALSE)
    /\ UNCHANGED <<max_retries, retry_config, attempt_history, failed_calls>>

\* generate, lines 184-188: self.rate_limiter.acquire(), blocking
GenBegin ==
    /\ g_pc = "begin"
    /\ g_method \in {"generate", "batch_generate"}
    /\ IF enable_rate_limiting
       THEN /\ g_pc' = "acquire"
            /\ g_events' = <<"acquire">>
            /\ op' = [op EXCEPT ![Caller] = "acquire"]
            /\ want' = [want EXCEPT ![Caller] = 1]
            /\ blocking' = [blocking EXCEPT ![Caller] = TRUE]
            /\ depth' = [depth EXCEPT ![Caller] = 0]
            /\ pc' = [pc EXCEPT ![Caller] = "enter"]
            /\ result' = [result EXCEPT ![Caller] = Res("pending", 0)]
            /\ UNCHANGED <<tokens, since_update, request_times, lock, sleep_left, fresh,
                   grants>>
       ELSE /\ g_pc' = "quota"
            /\ g_events' = <<>>
            /\ UNCHANGED rlvars
    /\ g_result' = NoResult
    /\ UNCHANGED <<enable_rate_limiting, enable_quota_management, g_method, g_left>>
    /\ UNCHANGED <<qvars, qtvars, rvars, wvars, evars, dvars, cvars, xvars, hvars>>

\* generate, lines 188-195: acquire has returned or raised
GenAfterAcquire ==
    /\ g_pc = "acquire"
    /\ pc[Caller] = "idle"
    /\ IF result[Caller].kind = "True"
       THEN /\ g_pc' = "quota"
            /\ UNCHANGED <<g_left, g_result>>
       ELSE IF result[Caller].kind = "RateLimitExceeded"
       THEN FinishCall(PreflightError("RateLimitExceeded"))
       ELSE \E msg \in Messages : FinishCall(generate_error("Exception", msg))
    /\ UNCHANGED <<enable_rate_limiting, enable_quota_management, g_method,
                   g_events>>
    /\ UNCHANGED <<rlvars, qvars, qtvars, rvars, wvars, evars, dvars, cvars, xvars, hvars>>

\* generate, lines 197-223: check_and_increment(tokens=estimated_tokens) and,
\* when it passes, the call of execute_with_retry
GenQuota ==
    /\ g_pc = "quota"
    /\ LET o == IF enable_quota_management
                THEN check_and_increment(usage, ServiceMaxTokens, 1, qnow)
                ELSE [usage |-> usage, raised |-> "none"]
       IN  /\ usage' = o.usage
           /\ qlast' = IF enable_quota_management
                       THEN Last("check_and_increment", ServiceMaxTokens, 1, o.raised)
                       ELSE qlast
           /\ IF o.raised # "none"
              THEN /\ FinishCall(PreflightError("QuotaExceeded"))
                   /\ g_events' = Append(g_events, "check_and_increment")
                   /\ UNCHANGED <<max_retries, evars>>
              ELSE /\ g_pc' = "transport"
                   /\ g_events' =
                         (IF enable_quota_management
                          THEN Append(g_events, "check_and_increment")
                          ELSE g_events) \o <<"execute_with_retry">>
                   /\ StartTransport
                   /\ UNCHANGED <<g_left, g_result>>
    /\ UNCHANGED <<enable_rate_limiting, enable_quota_management, g_method>>
    /\ UNCHANGED <<qnow, qticks, rlvars, qtvars, r_exception, r_attempt, r_result,
                   wvars, dvars, cvars, xvars, hvars>>

\* generate_streaming, lines 279-285: straight to execute_with_retry
StreamBegin ==
    /\ g_pc = "begin"
    /\ g_method = "generate_streaming"
    /\ g_pc' = "transport"
    /\ g_events' = <<"execute_with_retry">>
    /\ StartTransport
    /\ UNCHANGED <<enable_rate_limiting, enable_quota_management, g_method,
                   g_left, g_result>>
    /\ UNCHANGED <<rlvars, qvars, qtvars, r_exception, r_attempt, r_result,
                   wvars, dvars, cvars, xvars, hvars>>

\* self._client.invoke / self._client.stream inside execute_with_retry
TransportInvoke ==
    /\ OnlyExecute
    /\ g_pc = "transport"
    /\ e_pc = "call"
    /\ \E out \in TransportRaises \cup {"ok"} : Attempt(out)
    /\ UNCHANGED <<max_retries, retry_config, e_async, e_attempt>>

\* a generate that gives the request back to the quota when the transport
\* call failed
GenAfterTransport_Refunds ==
    /\ g_pc = "transport"
    /\ e_pc \in {"returned", "raised"}
    /\ IF e_pc = "returned"
       THEN FinishCall(Returned)
       ELSE IF g_method = "generate_streaming"
       THEN FinishCall(streaming_error(e_outcome.class))
       ELSE \E msg \in Messages : FinishCall(generate_error(e_outcome.class, msg))
    /\ usage' = IF e_pc = "raised"
                THEN [usage EXCEPT !.requests_this_minute = @ - 1]
                ELSE usage
    /\ UNCHANGED <<enable_rate_limiting, enable_quota_management, g_method,
                   g_events>>
    /\ UNCHANGED <<rlvars, qnow, qticks, qlast, qtvars, rvars, wvars, evars,
                   dvars, cvars, xvars, hvars>>

\* execute_with_retry has returned or raised: lines 225-259 and 286-292
GenAfterTransport ==
    /\ g_pc = "transport"
    /\ e_pc \in {"returned", "raised"}
    /\ IF e_pc = "returned"
       THEN FinishCall(Returned)
       ELSE IF g_method = "generate_streaming"
       THEN FinishCall(streaming_error(e_outcome.class))
       ELSE \E msg \in Messages : FinishCall(generate_error(e_outcome.class, msg))
    /\ UNCHANGED <<enable_rate_limiting, enable_quota_management, g_method,
                   g_events>>
    /\ UNCHANGED <<rlvars, qvars, qtvars, rvars, wvars, evars, dvars, cvars, xvars, hvars>>

\* clear_retry_history, lines 414-416
ClearRetryHistory ==
    /\ g_pc = "idle"
    /\ ClearHistory

\* -------------------------------- GeminiService, default configuration
\* bound: the seconds between two looks at the clock
DefaultTickSeconds == 10

\* program constants: gemini_config.py lines 69-73 and 110-114, and the
\* defaults of QuotaConfig, rate_limiter.py lines 21-25
REQUESTS_PER_MINUTE == 60
MAX_TOKENS_DEFAULT == 2048
DefaultRequestsPerHour == 1000
DefaultRequestsPerDay == 10000
DefaultTokensPerMinute == 10000
DefaultTokensPerDay == 100000

\* QuotaConfig(requests_per_minute=REQUESTS_PER_MINUTE), lines 115-117
default_quota_config ==
    [requests_per_minute |-> REQUESTS_PER_MINUTE,
     requests_per_hour   |-> DefaultRequestsPerHour,
     requests_per_day    |-> DefaultRequestsPerDay,
     tokens_per_minute   |-> DefaultTokensPerMinute,
     tokens_per_day      |-> DefaultTokensPerDay]

\* the checks of check_and_increment, lines 230-268, under configuration cfg
quota_violation(cfg, u, tk, cost) ==
    IF u.requests_this_minute + cost > cfg.requests_per_minute THEN "minute"
    ELSE IF u.requests_this_hour + cost > cfg.requests_per_hour THEN "hour"
    ELSE IF u.requests_this_day + cost > cfg.requests_per_day THEN "day"
    ELSE IF tk > 0 /\ u.tokens_this_minute + tk > cfg.tokens_per_minute
         THEN "minute_tokens"
    ELSE IF tk > 0 /\ u.tokens_this_day + tk > cfg.tokens_per_day
         THEN "day_tokens"
    ELSE "none"

\* check_and_increment, lines 227-282, under configuration cfg
check_and_increment_with(cfg, u, tk, cost, now) ==
    LET r == reset_if_needed(u, now)
        v == quota_violation(cfg, r, tk, cost)
    IN  IF v # "none"
        THEN [usage |-> r, raised |-> v]
        ELSE [usage |-> increment(r, tk, cost), raised |-> "none"]

\* RateLimiter(requests_per_minute=REQUESTS_PER_MINUTE): burst_size is
\* requests_per_minute, rate_limiter.py line 100
DefaultCapacity == TokenScale * REQUESTS_PER_MINUTE

\* rate_limiter.py lines 131-135 for that limiter
default_refill(tk, elapsed) == Min(DefaultCapacity, tk + elapsed * REQUESTS_PER_MINUTE)

InitDefaults ==
    /\ d_tokens = DefaultCapacity
    /\ d_last_update = 0
    /\ d_usage = QuotaUsage(0)
    /\ d_now = 0
    /\ d_calls = 0
    /\ d_passed = 0

\* service.generate(prompt) with max_tokens left to MAX_TOKENS_DEFAULT and a
\* transport that answers: acquire grants (the bucket holds a token), then
\* check_and_increment(tokens=self.max_tokens), then the transport
DefaultGenerate ==
    /\ OnlyDefaults
    /\ d_calls < REQUESTS_PER_MINUTE
    /\ LET lvl == default_refill(d_tokens, d_now - d_last_update)
           o == check_and_increment_with(default_quota_config, d_usage,
                                         MAX_TOKENS_DEFAULT, 1, d_now)
       IN  /\ Enough(lvl, 1)
           /\ d_tokens' = Deduct(lvl, 1)
           /\ d_last_update' = d_now
           /\ d_usage' = o.usage
           /\ d_passed' = IF o.raised = "none" THEN d_passed + 1 ELSE d_passed
    /\ d_calls' = d_calls + 1
    /\ UNCHANGED d_now

\* time passes, within the first minute of the service
DefaultTick ==
    /\ OnlyDefaults
    /\ d_now + DefaultTickSeconds < MinuteSeconds
    /\ d_now' = d_now + DefaultTickSeconds
    /\ UNCHANGED <<d_tokens, d_last_update, d_usage, d_calls, d_passed>>

\* ------------------------------------------- RateLimiter, any arguments
\* bounds: the largest arguments tried
MaxCtorRate == 2
MaxCtorBurst == 2

\* the burst_size argument left to its default
NoBurst == 0

\* no limiter built yet
InitConstruct ==
    /\ c_status = "none"
    /\ c_rpm = 0
    /\ c_burst_size = 0
    /\ c_tokens = 0
    /\ c_elapsed = 0
    /\ c_locked = FALSE
    /\ c_outcome = "none"

\* RateLimiter(requests_per_minute=rpm, burst_size=burst), lines 87-111:
\* `burst_size or requests_per_minute` (line 100) takes requests_per_minute
\* for None and for 0; deque(maxlen=requests_per_minute) (line 106) raises
\* ValueError for a negative maxlen, and nothing else looks at the arguments
Construct ==
    /\ OnlyConstruct
    /\ \E rpm \in (-1)..MaxCtorRate, burst \in NoBurst..MaxCtorBurst :
          LET size == IF burst = NoBurst THEN rpm ELSE burst
          IN  /\ c_rpm' = rpm
              /\ c_burst_size' = size
              /\ c_tokens' = TokenScale * size
              /\ c_status' = IF rpm < 0 THEN "ValueError" ELSE "constructed"
    /\ c_elapsed' = 0
    /\ c_locked' = FALSE
    /\ c_outcome' = "none"

\* acquire(n, blocking) on the limiter, lines 127-158, by one thread that
\* finds the lock free: without enough tokens both paths divide by self.rate
\* (lines 147 and 155); the blocking path then sleeps and re-enters acquire
\* holding the lock
CtorAcquire ==
    /\ OnlyConstruct
    /\ c_status = "constructed"
    /\ ~c_locked
    /\ \E n \in 1..2, b \in BOOLEAN :
          LET lvl == Min(TokenScale * c_burst_size, c_tokens + c_elapsed * c_rpm)
          IN  IF lvl >= TokenScale * n
              THEN /\ c_tokens' = lvl - TokenScale * n
                   /\ c_outcome' = "True"
                   /\ c_locked' = FALSE
              ELSE /\ c_tokens' = lvl
                   /\ c_outcome' = IF c_rpm = 0 THEN "ZeroDivisionError"
                                   ELSE IF b THEN "blocked"
                                   ELSE "RateLimitExceeded"
                   /\ c_locked' = (c_rpm # 0 /\ b)
    /\ c_elapsed' = 0
    /\ UNCHANGED <<c_status, c_rpm, c_burst_size>>

\* time passes
CtorTick ==
    /\ OnlyConstruct
    /\ c_status = "constructed"
    /\ c_elapsed < RateWindow
    /\ c_elapsed' = c_elapsed + TickSeconds
    /\ UNCHANGED <<c_status, c_rpm, c_burst_size, c_tokens, c_locked, c_outcome>>

\* ------------------------------------------------- retry and async_retry
\* the default of the retryable_exceptions parameter, lines 265 and 292
InitDecorator == x_retryable = RETRYABLE_EXCEPTIONS

\* the tuples passed as retryable_exceptions: the default, a class outside
\* the default allow-list, and a class of the default allow-list alone
DecoratorArgs == {RETRYABLE_EXCEPTIONS, <<"ValueError">>, <<"RateLimitError">>}

\* retry(config, retryable_exceptions=X) (async = FALSE) or
\* async_retry(config, retryable_exceptions=X) (async = TRUE) applied to func,
\* lines 277-278 and 304-305: handler = RetryHandler(config or RetryConfig());
\* X is not handed to the handler or used anywhere else
Decorate ==
    /\ e_pc \in {"idle", "returned", "raised"}
    /\ \E X \in DecoratorArgs : x_retryable' = X
    /\ \E m \in 0..MaxMaxRetries : max_retries' = m
    /\ \E cfg \in {DefaultRetryConfig, TightRetryConfig} : retry_config' = cfg
    /\ \E async \in BOOLEAN : e_async' = async
    /\ attempt_history' = <<>>
    /\ e_pc' = "idle"
    /\ e_attempt' = 0
    /\ fn_log' = <<>>
    /\ sleeps' = <<>>
    /\ e_outcome' = NoOutcome
    /\ failed_calls' = 0
    /\ UNCHANGED <<rlvars, qvars, qtvars, r_exception, r_attempt, r_result,
                   wvars, svars, dvars, cvars, hvars>>

\* the decorated function is called: wrapper, lines 282-283 and 309-310,
\* calls handler.execute_with_retry(func) or execute_with_retry_async(func)
CallDecorated ==
    /\ OnlyExecute
    /\ e_pc \in {"idle", "returned", "raised"}
    /\ Len(attempt_history) + max_retries + 1 <= MaxHistory
    /\ enter_loop(e_async)
    /\ UNCHANGED <<max_retries, retry_config, attempt_history, failed_calls>>

\* ---------------------------------------------------------- specifications
Init ==
    /\ InitRL /\ InitQ /\ InitQT /\ InitRetry /\ InitBackoff /\ InitExecute
    /\ InitService /\ InitDefaults /\ InitConstruct /\ InitDecorator
    /\ InitWindow

\* RateLimiter shared by the threads
Next ==
    \/ \E t \in Threads : CallAcquire(t)
    \/ \E t \in Threads : CallOther(t)
    \/ \E t \in Threads : Lock(t)
    \/ \E t \in Threads : AcquireBody(t)
    \/ \E t \in Threads : Wake(t)
    \/ \E t \in Threads : GetCurrentRateBody(t)
    \/ \E t \in Threads : ResetBody(t)
    \/ TickRL

Spec == Init /\ [][Next]_vars

\* the scheduler runs every thread that can run, and time passes
FairSpec ==
    /\ Spec
    /\ WF_vars(TickRL)
    /\ \A t \in Threads :
          WF_vars(Lock(t) \/ AcquireBody(t) \/ Wake(t) \/ GetCurrentRateBody(t)
                  \/ ResetBody(t))

\* QuotaManager, one caller at a time
QuotaNext ==
    \/ CheckAndIncrement
    \/ GetUsageStats
    \/ QuotaReset
    \/ QuotaTick

QuotaSpec == Init /\ [][QuotaNext]_vars

\* QuotaManager.check_and_increment called by the threads
QuotaThreadsNext ==
    \/ \E t \in Threads : QCall(t)
    \/ \E t \in Threads : QLock(t)
    \/ \E t \in Threads : QResetStep(t)
    \/ \E t \in Threads : QCheck(t)
    \/ \E t \in Threads : QLoad(t)
    \/ \E t \in Threads : QStore(t)
    \/ \E t \in Threads : QExit(t)
    \/ QThreadsTick

QuotaThreadsSpec == Init /\ [][QuotaThreadsNext]_vars

\* RetryHandler.should_retry
RetryNext ==
    \/ NewHandler
    \/ ShouldRetry

RetrySpec == Init /\ [][RetryNext]_vars

\* RetryHandler.execute_with_retry, one caller
ExecuteNext ==
    \/ NewRetryHandler
    \/ ExecuteWithRetry
    \/ Invoke
    \/ SleepDone
    \/ ClearHistory

ExecuteSpec == Init /\ [][ExecuteNext]_vars

\* GeminiService called by one thread, within one window of the quota
\* manager (the windows' resets are QuotaSpec's); the limiter's clock advances
ServiceNext ==
    \/ NewService
    \/ CallService
    \/ GenBegin
    \/ Lock(Caller)
    \/ AcquireBody(Caller)
    \/ Wake(Caller)
    \/ GenAfterAcquire
    \/ GenQuota
    \/ StreamBegin
    \/ TransportInvoke
    \/ SleepDone
    \/ GenAfterTransport
    \/ ClearRetryHistory
    \/ TickRL

ServiceSpec == Init /\ [][ServiceNext]_vars

\* the calling thread keeps running and time passes
FairServiceSpec ==
    /\ ServiceSpec
    /\ WF_vars(TickRL)
    /\ WF_vars(GenBegin \/ Lock(Caller) \/ AcquireBody(Caller) \/ Wake(Caller)
               \/ GenAfterAcquire \/ GenQuota \/ StreamBegin \/ TransportInvoke
               \/ SleepDone \/ GenAfterTransport)

\* consecutive generate calls on a service built with the defaults
DefaultsNext ==
    \/ DefaultGenerate
    \/ DefaultTick

DefaultsSpec == Init /\ [][DefaultsNext]_vars

\* RetryConfig.get_wait_time on the configurations and attempts of the bounds
BackoffNext == GetWaitTime

BackoffSpec == Init /\ [][BackoffNext]_vars

\* RateLimiter built with any arguments and used by one thread
ConstructNext ==
    \/ Construct
    \/ CtorAcquire
    \/ CtorTick

ConstructSpec == Init /\ [][ConstructNext]_vars

\* functions decorated with retry or async_retry, one caller
DecoratorNext ==
    \/ Decorate
    \/ CallDecorated
    \/ Invoke
    \/ SleepDone

DecoratorSpec == Init /\ [][DecoratorNext]_vars

\* QuotaManager, one caller at a time, calls placed around the ends of the
\* minute and hour windows
WindowNext ==
    \/ WindowCall
    \/ GetUsageStats
    \/ WindowTick

QuotaWindowSpec == Init /\ [][WindowNext]_vars

\* ------------------------------------------------------------- properties

\* C1: in every reachable state of the RateLimiter the bucket level lies
\* between 0 and burst_size: the refill never raises it above burst_size and
\* a granted acquire never takes it below 0.
C1_BucketBound == 0 <= tokens /\ tokens <= TokenScale * BurstSize

\* a non-blocking acquire was rejected on a bucket that an earlier grant had
\* drained and that the refill has brought back to exactly burst_size
C1_Witness ==
    /\ tokens = TokenScale * BurstSize
    /\ request_times # <<>>
    /\ \E t \in Threads : result[t].kind = "RateLimitExceeded"

\* C2: a blocking acquire(n), 1 <= n <= burst_size, that finds too few
\* tokens and waits, re-attempts and eventually returns True.
C2_BlockingAcquireReturns ==
    \A t \in Threads :
        (pc[t] = "sleep" /\ want[t] <= BurstSize)
            ~> (pc[t] = "idle" /\ result[t].kind = "True")

\* C3: while a blocking acquire waits for the refill, the RateLimiter lock
\* is not held by the waiting caller.
C3_SleepsWithoutLock == \A t \in Threads : pc[t] = "sleep" => lock # t

\* C4: acquire(n, blocking=False) raises RateLimitExceeded iff the bucket
\* level after the refill is below n; it then carries
\* retry_after = (n - tokens) / rate and takes nothing; otherwise it returns
\* True and takes exactly n tokens.  A fresh limiter grants exactly
\* burst_size acquire(1) calls when no time passes and rejects the next.
C4_NonBlockingAcquire ==
    [][\A t \in Threads :
          (pc[t] = "body" /\ op[t] = "acquire" /\ ~blocking[t] /\ pc'[t] = "idle")
          => LET level == Min(TokenScale * BurstSize,
                              tokens + since_update * RequestsPerMinute)
                 need == TokenScale * want[t]
                 raised == result'[t].kind = "RateLimitExceeded"
             IN  /\ raised <=> level < need
                 /\ raised => /\ result'[t].val = need - level
                              /\ tokens' = level
                 /\ ~raised => /\ result'[t].kind = "True"
                               /\ tokens' = level - need
                 /\ (fresh >= 0 /\ want[t] = 1)
                        => (raised <=> fresh = BurstSize)]_vars

\* a fresh limiter has granted burst_size acquire(1) calls and rejected the
\* next one, which lacks one whole token
C4_Witness ==
    /\ fresh = BurstSize
    /\ \E t \in Threads : /\ result[t].kind = "RateLimitExceeded"
                          /\ result[t].val = TokenScale

\* C5: a check_and_increment that raises QuotaExceeded changes no counter:
\* get_usage_stats() right before and right after it (the clock standing
\* still) returns the same statistics, also when only a token check fails.
C5_FailedCallChangesNothing ==
    [][(qlast'.op = "check_and_increment" /\ qlast'.raised # "none"
        /\ qnow' = qnow)
       => get_usage_stats(usage', qnow').stats = get_usage_stats(usage, qnow).stats]_vars

\* a call was rejected by the per-minute token check alone, with requests
\* already counted in the minute window
C5_Witness ==
    /\ qlast.op = "check_and_increment"
    /\ qlast.raised = "minute_tokens"
    /\ usage.requests_this_minute > 0

\* C6: after any sequence of check_and_increment (cost >= 0, tokens >= 0),
\* get_usage_stats, reset and clock advances, every window counter is within
\* its configured limit.
C6_CountersWithinLimits ==
    /\ usage.requests_this_minute <= QuotaPerMinute
    /\ usage.requests_this_hour <= QuotaPerHour
    /\ usage.requests_this_day <= QuotaPerDay
    /\ usage.tokens_this_minute <= TokensPerMinute
    /\ usage.tokens_this_day <= TokensPerDay

\* the minute window is full and a further call was rejected for it
C6_Witness ==
    /\ usage.requests_this_minute = QuotaPerMinute
    /\ usage.tokens_this_minute = TokensPerMinute
    /\ qlast.op = "check_and_increment"
    /\ qlast.raised = "minute"

QuotaTypes == <<"minute", "hour", "day", "minute_tokens", "day_tokens">>

\* would the call (tk, cost) exceed the limit that quota type q stands for?
Exceeds(u, q, tk, cost) ==
    \/ q = "minute" /\ u.requests_this_minute + cost > QuotaPerMinute
    \/ q = "hour" /\ u.requests_this_hour + cost > QuotaPerHour
    \/ q = "day" /\ u.requests_this_day + cost > QuotaPerDay
    \/ q = "minute_tokens" /\ u.tokens_this_minute + tk > TokensPerMinute
    \/ q = "day_tokens" /\ u.tokens_this_day + tk > TokensPerDay

\* C7: the QuotaExceeded of a call that exceeds several limits carries the
\* quota_type of the first exceeded limit in the order minute, hour, day,
\* minute_tokens, day_tokens; a call raises only when it exceeds a limit,
\* and quota_type is one of these five values.
C7_FirstViolationReported ==
    [][(qlast'.op = "check_and_increment" /\ qnow' = qnow)
       => LET u == reset_if_needed(usage, qnow)
              tk == qlast'.tokens
              cost == qlast'.cost
          IN  /\ qlast'.raised \in {QuotaTypes[i] : i \in 1..5} \cup {"none"}
              /\ \A i \in 1..5 :
                    qlast'.raised = QuotaTypes[i]
                    <=> /\ Exceeds(u, QuotaTypes[i], tk, cost)
                        /\ \A j \in 1..(i - 1) :
                              ~Exceeds(u, QuotaTypes[j], tk, cost)]_vars

\* a rejected call exceeded the minute limit, the hour limit and the
\* per-minute token limit at once, and was reported as "minute"
C7_Witness ==
    /\ qlast.op = "check_and_increment"
    /\ qlast.raised = "minute"
    /\ usage.requests_this_hour + qlast.cost > QuotaPerHour
    /\ usage.tokens_this_minute + qlast.tokens > TokensPerMinute

\* the minute window has run out at time now, the hour and day windows not
MinuteOnlyElapsed(u, now) ==
    /\ now - u.last_reset_minute >= MinuteSeconds
    /\ now - u.last_reset_hour < HourSeconds
    /\ now - u.last_reset_day < DaySeconds

\* C8 as stated: a check_and_increment or get_usage_stats call made when
\* only the minute window has run out leaves requests_this_minute and
\* tokens_this_minute at 0, the minute window's start at now, and the hour,
\* day and total counters unchanged.
C8_CallOnlyResetsMinute ==
    [][(qlast'.op \in {"check_and_increment", "get_usage_stats"}
        /\ qnow' = qnow /\ MinuteOnlyElapsed(usage, qnow))
       => /\ usage'.requests_this_minute = 0
          /\ usage'.tokens_this_minute = 0
          /\ usage'.last_reset_minute = qnow
          /\ usage'.requests_this_hour = usage.requests_this_hour
          /\ usage'.requests_this_day = usage.requests_this_day
          /\ usage'.tokens_this_day = usage.tokens_this_day
          /\ usage'.total_requests = usage.total_requests
          /\ usage'.total_tokens = usage.total_tokens]_vars

\* C8, amended: such a call restarts the minute window only; what the
\* counters hold afterwards is what the call itself admitted on top: nothing
\* for get_usage_stats and for a rejected check_and_increment, cost and
\* tokens for an admitted one.
C8_OnlyMinuteWindowRestarts ==
    [][(qlast'.op \in {"check_and_increment", "get_usage_stats"}
        /\ qnow' = qnow /\ MinuteOnlyElapsed(usage, qnow))
       => LET admit == qlast'.op = "check_and_increment" /\ qlast'.raised = "none"
              c == IF admit THEN qlast'.cost ELSE 0
              k == IF admit THEN qlast'.tokens ELSE 0
          IN  /\ usage'.requests_this_minute = c
              /\ usage'.tokens_this_minute = k
              /\ usage'.last_reset_minute = qnow
              /\ usage'.requests_this_hour = usage.requests_this_hour + c
              /\ usage'.requests_this_day = usage.requests_this_day + c
              /\ usage'.tokens_this_day = usage.tokens_this_day + k
              /\ usage'.total_requests = usage.total_requests + c
              /\ usage'.total_tokens = usage.total_tokens + k
              /\ usage'.last_reset_hour = usage.last_reset_hour
              /\ usage'.last_reset_day = usage.last_reset_day]_vars

\* get_usage_stats has just restarted the minute window of a manager whose
\* hour and day windows go on with the requests and tokens they had
C8_Witness ==
    /\ qlast.op = "get_usage_stats"
    /\ qnow >= MinuteSeconds
    /\ usage.last_reset_minute = qnow
    /\ usage.last_reset_hour < qnow
    /\ usage.last_reset_day < qnow
    /\ usage.requests_this_minute = 0
    /\ usage.tokens_this_minute = 0
    /\ usage.requests_this_hour > 0
    /\ usage.tokens_this_day > 0

\* the limit of each counter of Counters; the totals have none
CounterWithinLimit(f) ==
    \/ f \in {"total_requests", "total_tokens"}
    \/ f = "requests_this_minute" /\ usage[f] <= QuotaPerMinute
    \/ f = "requests_this_hour" /\ usage[f] <= QuotaPerHour
    \/ f = "requests_this_day" /\ usage[f] <= QuotaPerDay
    \/ f = "tokens_this_minute" /\ usage[f] <= TokensPerMinute
    \/ f = "tokens_this_day" /\ usage[f] <= TokensPerDay

\* C9: with several threads inside check_and_increment, the reset, the
\* checks and the increments of one call are atomic: no window holds more
\* than its limit, and whenever no call is under way every counter equals
\* the sum of the costs admitted since its last reset.
C9_CallsAreAtomic ==
    /\ \A i \in 1..Len(Counters) : CounterWithinLimit(Counters[i])
    /\ (\A t \in Threads : qpc[t] \in {"idle", "enter"})
          => \A i \in 1..Len(Counters) : usage[Counters[i]] = admitted[i]

\* one thread is in the middle of its increments while another, whose call
\* arrived in the meantime, waits for the lock
C9_Witness ==
    \E t1, t2 \in Threads :
        /\ t1 # t2
        /\ qpc[t1] = "store"
        /\ qidx[t1] > 1
        /\ qlock = t1
        /\ qpc[t2] = "enter"
        /\ usage.total_requests > qcost[t1]

\* the exception classes the claim counts as retryable
RetryableKinds ==
    {"RetryableError", "RateLimitError", "ServiceUnavailableError",
     "TimeoutError", "ConnectionError", "ConnectionResetError",
     "CustomRetryable"}

IsRetryable(out) == out # "ok" /\ isinstance(out, RETRYABLE_EXCEPTIONS)
AllRetryable(log) == \A i \in 1..Len(log) : IsRetryable(log[i])
Finished == e_pc \in {"returned", "raised"}

\* C11: when every invocation of func raises a retryable exception,
\* execute_with_retry and execute_with_retry_async invoke func at most
\* max_retries + 1 times and cannot return; the call ends after exactly
\* max_retries + 1 invocations and exactly max_retries sleeps, none after
\* the last invocation, by raising the exception object the last invocation
\* raised.
C11_ExhaustedRetriesRaiseLast ==
    (fn_log # <<>> /\ AllRetryable(fn_log)) =>
        /\ Len(fn_log) <= max_retries + 1
        /\ e_pc # "returned"
        /\ Len(fn_log) <= max_retries => e_pc \in {"sleep", "call"}
        /\ Finished =>
              /\ Len(fn_log) = max_retries + 1
              /\ Len(sleeps) = max_retries
              /\ e_pc = "raised"
              /\ e_outcome = [kind |-> "exception",
                              class |-> fn_log[Len(fn_log)],
                              call |-> Len(fn_log)]

C11_Witness ==
    /\ e_pc = "raised"
    /\ e_async
    /\ max_retries = 2
    /\ AllRetryable(fn_log)
    /\ Len(fn_log) = 3
    /\ fn_log[2] = fn_log[3]

\* C12: when func raises retryable exceptions on its first k invocations,
\* k <= max_retries, execute_with_retry makes the next invocation, and when
\* that one returns a value the call returns that very value after k + 1
\* invocations and k sleeps; a successful invocation is the last thing the
\* call does.
C12_SuccessAfterRetries ==
    /\ \A k \in 1..Len(fn_log) :
          (k <= max_retries /\ AllRetryable(SubSeq(fn_log, 1, k))) =>
              (Len(fn_log) > k \/ e_pc \in {"sleep", "call"})
    /\ \A i \in 1..Len(fn_log) :
          fn_log[i] = "ok" =>
              /\ i = Len(fn_log)
              /\ i - 1 <= max_retries
              /\ e_pc = "returned"
              /\ e_outcome = [kind |-> "value", class |-> "none", call |-> i]
              /\ Len(sleeps) = i - 1

C12_Witness ==
    /\ e_pc = "returned"
    /\ Len(fn_log) = 3
    /\ AllRetryable(SubSeq(fn_log, 1, 2))
    /\ fn_log[3] = "ok"
    /\ Len(sleeps) = 2

\* C13: the length of attempt_history is the number of failed invocations
\* of func since the last clear_history (or since the handler was built):
\* one record for each failure, retryable or not, none for a success; until
\* they are cleared, the records of the current call carry the attempt index
\* and the name of the exception's class.
C13_OneRecordPerFailure ==
    /\ Len(attempt_history) = failed_calls
    /\ (e_pc \in {"call", "sleep", "returned", "raised"}) =>
          LET failures == {i \in 1..Len(fn_log) : fn_log[i] # "ok"}
              n == Cardinality(failures)
              h == Len(attempt_history)
          IN  h >= n =>
                 \A i \in failures :
                   attempt_history[h - n + i] =
                       [attempt |-> i - 1,
                        exception_type |->
                           IF fn_log[i] = "BuiltinTimeoutError" THEN "TimeoutError"
                           ELSE fn_log[i]]

C13_Witness ==
    /\ e_pc = "returned"
    /\ Len(fn_log) = 3
    /\ Len(attempt_history) = 3
    /\ failed_calls = 3

\* C14: an invocation of func that raises an exception outside the
\* retryable allow-list ends the call at once: the call raises that very
\* exception object, no sleep follows, exactly one record is appended; when
\* it is the first invocation, func has been invoked exactly once and the
\* call has not slept at all.
C14_NonRetryableRaisedAtOnce ==
    [][(e_pc = "call" /\ Len(fn_log') = Len(fn_log) + 1
        /\ fn_log'[Len(fn_log')] # "ok"
        /\ ~isinstance(fn_log'[Len(fn_log')], RETRYABLE_EXCEPTIONS)) =>
          /\ e_pc' = "raised"
          /\ e_outcome' = [kind |-> "exception",
                           class |-> fn_log'[Len(fn_log')],
                           call |-> Len(fn_log')]
          /\ sleeps' = sleeps
          /\ Len(attempt_history') = Len(attempt_history) + 1
          /\ fn_log = <<>> => (Len(fn_log') = 1 /\ sleeps' = <<>>)]_vars

C14_Witness ==
    /\ e_pc = "raised"
    /\ fn_log = <<"ValueError">>
    /\ sleeps = <<>>
    /\ max_retries = 3
    /\ Len(attempt_history) = 1
    /\ e_outcome.class = "ValueError"

\* min(initial_delay * backoff_factor^a, max_wait_time) as the fraction it is
UnjitteredWait(cfg, a) ==
    LET n == cfg.initial_delay * Pow(cfg.half_factor, a)
        d == Pow(2, a)
    IN  IF n <= cfg.max_wait_time * d THEN [num |-> n, den |-> d]
        ELSE [num |-> cfg.max_wait_time, den |-> 1]

\* C20: for initial_delay > 0 and backoff_factor >= 1, without jitter
\* get_wait_time(attempt) is min(initial_delay * backoff_factor^attempt,
\* max_wait_time), at most max_wait_time and at least get_wait_time(attempt - 1)
\* (1, 2, 4, 8 for initial_delay 1 and factor 2; max_wait_time at attempt 5
\* when max_wait_time is 10); with jitter it is at least 0.5 times and less
\* than 1.5 times that minimum.
C20_BackoffMonotoneCappedJitter ==
    w_attempt >= 0 =>
        LET u == UnjitteredWait(w_config, w_attempt)
            doubling == w_config.initial_delay = 1 /\ w_config.half_factor = 4
        IN  /\ ~w_config.jitter =>
                  /\ FracEq(w_result, u)
                  /\ FracLeq(w_result, Frac(w_config.max_wait_time, 1))
                  /\ w_attempt > 0 => FracLeq(w_prev, w_result)
                  /\ (doubling /\ w_attempt <= 3) =>
                        FracEq(w_result, Frac(<<1, 2, 4, 8>>[w_attempt + 1], 1))
                  /\ (doubling /\ w_attempt = 5 /\ w_config.max_wait_time = SmallMaxWait) =>
                        FracEq(w_result, Frac(SmallMaxWait, 1))
            /\ w_config.jitter =>
                  /\ FracLeq(FracTimes(Frac(1, 2), u), w_result)
                  /\ FracLess(w_result, FracTimes(Frac(3, 2), u))

C20_Witness ==
    /\ w_attempt = 5
    /\ ~w_config.jitter
    /\ w_config.initial_delay = 1
    /\ w_config.half_factor = 4
    /\ w_config.max_wait_time = SmallMaxWait
    /\ w_result = Frac(SmallMaxWait, 1)
    /\ FracEq(w_prev, w_result)

\* the steps of a guarded generate, in the order of lines 184-223
GuardedSteps == <<"acquire", "check_and_increment", "execute_with_retry">>
IsPrefix(a, b) == Len(a) <= Len(b) /\ a = SubSeq(b, 1, Len(a))
InGenerate == g_method \in {"generate", "batch_generate"}
BothEnabled == enable_rate_limiting /\ enable_quota_management

\* C15: in a generate call of a service with rate limiting and quota
\* management enabled the steps taken are a prefix of acquire,
\* check_and_increment, execute_with_retry: the quota check is reached only
\* after acquire returned True, the transport is reached only after the
\* quota check admitted the call, and a call that ended with a pre-flight
\* rejection made no later step.
C15_PreflightOrder ==
    (BothEnabled /\ InGenerate) =>
        /\ IsPrefix(g_events, GuardedSteps)
        /\ g_pc = "acquire" => g_events = <<"acquire">>
        /\ g_pc = "quota" =>
              /\ g_events = <<"acquire">>
              /\ result[Caller].kind = "True"
        /\ g_pc = "transport" =>
              /\ g_events = GuardedSteps
              /\ result[Caller].kind = "True"
              /\ qlast.op = "check_and_increment" /\ qlast.raised = "none"
        /\ g_result.original = "RateLimitExceeded" => g_events = <<"acquire">>
        /\ g_result.original = "QuotaExceeded" =>
              g_events = <<"acquire", "check_and_increment">>

C15_Witness ==
    /\ BothEnabled
    /\ g_method = "generate"
    /\ g_pc = "idle"
    /\ g_result.original = "QuotaExceeded"
    /\ g_events = <<"acquire", "check_and_increment">>

\* a step in which generate ends at a pre-flight step, and the exception the
\* pre-flight step raised
EndsAtQuota == g_pc = "quota" /\ g_pc' \notin {"quota", "transport"}
EndsAtAcquire ==
    /\ g_pc = "acquire" /\ g_pc' \notin {"acquire", "quota"}
    /\ result[Caller].kind = "RateLimitExceeded"
Rejection == IF g_pc = "quota" THEN "QuotaExceeded" ELSE "RateLimitExceeded"
RetryHandlerUntouched ==
    /\ UNCHANGED <<attempt_history, sleeps, fn_log, e_pc, e_attempt>>
    /\ \A i \in 1..Len(g_events') :
          /\ g_events'[i] # "execute_with_retry"
          /\ \A j \in 1..Len(g_events') : g_events'[i] = g_events'[j] => i = j

\* C16 as stated: the RateLimitExceeded or QuotaExceeded of a pre-flight step
\* of generate is what the caller of generate receives, and the RetryHandler
\* has no part in it.
C16_RejectionReachesCallerAsIs ==
    [][(EndsAtQuota \/ EndsAtAcquire) =>
          /\ g_result' = [kind |-> "raised", class |-> Rejection, original |-> "none"]
          /\ RetryHandlerUntouched]_vars

\* C16 amended: the RateLimitExceeded or QuotaExceeded of a pre-flight step
\* of generate never reaches the RetryHandler (no record, no sleep, no
\* invocation, no step repeated), and the caller of generate receives a
\* GeminiRateLimitError whose original_error is that exception.
C16_RejectionWrappedNotRetried ==
    [][(EndsAtQuota \/ EndsAtAcquire) =>
          /\ g_result' = [kind |-> "raised", class |-> "GeminiRateLimitError",
                          original |-> Rejection]
          /\ RetryHandlerUntouched]_vars

C16_Witness ==
    /\ g_method = "generate"
    /\ g_pc = "idle"
    /\ g_result = [kind |-> "raised", class |-> "GeminiRateLimitError",
                   original |-> "QuotaExceeded"]
    /\ qlast.raised = "minute"
    /\ attempt_history = <<>>

\* C17: a generate whose acquire finds fewer than 1 token in the bucket ends
\* by raising GeminiRateLimitError, without the transport being invoked.
C17_EmptyBucketRaises ==
    (g_pc = "acquire" /\ InGenerate /\ pc[Caller] = "sleep") ~>
        (g_pc # "acquire" /\ g_result.class = "GeminiRateLimitError"
         /\ g_events = <<"acquire">>)

\* C19: when the transport is invoked in a service call, the call has made
\* a successful acquire if rate limiting is enabled and a successful
\* check_and_increment if quota management is enabled.
C19_TransportBehindPreflight ==
    (g_pc = "transport" /\ fn_log # <<>>) =>
        /\ enable_rate_limiting =>
              (g_events[1] = "acquire" /\ result[Caller].kind = "True")
        /\ enable_quota_management =>
              \E i \in 1..Len(g_events) : g_events[i] = "check_and_increment"

\* C18: with the default configuration, each of N <= REQUESTS_PER_MINUTE
\* generate calls made within one minute passes the quota check, and
\* total_requests is N afterwards.
C18_DefaultCallsPassQuota ==
    /\ d_passed = d_calls
    /\ get_usage_stats(d_usage, d_now).stats.total_requests = d_calls

\* C21: with the default configuration should_retry(e, 0) is True for a
\* timeout error e, be it Python's built-in TimeoutError or the module's own
\* TimeoutError class.
C21_TimeoutIsRetryable ==
    (r_exception \in {"TimeoutError", "BuiltinTimeoutError"}
     /\ r_attempt = 0 /\ max_retries = 3) => r_result = TRUE

RECURSIVE CallsGranted(_)
CallsGranted(gs) ==
    IF gs = <<>> THEN 0 ELSE gs[1].calls + CallsGranted(Tail(gs))

\* C22: get_current_rate returns the number of granted acquire calls of the
\* trailing 60 seconds (since the last reset), each counted once whatever
\* its number of tokens.
C22_RateCountsRecentGrants ==
    [][\A t \in Threads :
          (pc[t] = "body" /\ op[t] = "get_current_rate" /\ pc'[t] = "idle") =>
              result'[t] = [kind |-> "rate", val |-> CallsGranted(grants)]]_vars

\* C23: reset() leaves the bucket at burst_size and the timestamp history
\* empty; while no time passes and nothing but acquire(1) and
\* get_current_rate is called after it, get_current_rate returns 0 before
\* the first acquire and the first burst_size non-blocking acquire(1) calls
\* return True.
C23_ResetRestoresBurst ==
    [][\A t \in Threads :
          /\ (pc[t] = "body" /\ op[t] = "reset" /\ pc'[t] = "idle") =>
                /\ tokens' = TokenScale * BurstSize
                /\ request_times' = <<>>
                /\ result'[t].kind = "None"
          /\ (pc[t] = "body" /\ op[t] = "get_current_rate" /\ pc'[t] = "idle"
              /\ fresh = 0) => result'[t].val = 0
          /\ (pc[t] = "body" /\ op[t] = "acquire" /\ ~blocking[t] /\ want[t] = 1
              /\ pc'[t] = "idle" /\ fresh \in 0..(BurstSize - 1)) =>
                /\ result'[t].kind = "True"
                /\ fresh' = fresh + 1]_vars

\* a reset followed, with no time passing, by burst_size granted acquire(1)
\* calls that empty the bucket
C23_Witness ==
    /\ fresh = BurstSize
    /\ tokens = 0
    /\ CallsGranted(grants) = BurstSize
    /\ \E t \in Threads : result[t].kind = "None"

\* C24: for every RetryConfig, with or without jitter, and every attempt, the
\* value returned by get_wait_time is at most max_wait_time.
C24_WaitAtMostMaxWaitTime ==
    w_attempt >= 0 => FracLeq(w_result, Frac(w_config.max_wait_time, 1))

\* C25: a RateLimiter that was constructed has a positive rate, and acquire on
\* it never fails with a division by zero.
C25_NonPositiveRateRejected ==
    c_status = "constructed" => (c_rpm > 0 /\ c_outcome # "ZeroDivisionError")

\* C26: when func, decorated with retry or async_retry and
\* retryable_exceptions = X, raises, the call goes on to a retry exactly when
\* the exception is an instance of a class of X and attempts remain.
C26_DecoratorAllowList ==
    [][(e_pc = "call" /\ e_pc' \in {"sleep", "raised"}) =>
          (e_pc' = "sleep" <=>
              (/\ isinstance(fn_log'[Len(fn_log')], x_retryable)
               /\ e_attempt < max_retries))]_vars

\* C27: the cost admitted by successful check_and_increment calls within any
\* 60 seconds is at most requests_per_minute.
C27_MinuteQuotaSliding == SumCost(recent_cost) <= config.requests_per_minute

\* C28: the request counters are nested: requests_this_minute <=
\* requests_this_hour <= requests_this_day <= total_requests.
C28_CountersNested ==
    /\ usage.requests_this_minute <= usage.requests_this_hour
    /\ usage.requests_this_hour <= usage.requests_this_day
    /\ usage.requests_this_day <= usage.total_requests

RECURSIVE TokensGranted(_)
TokensGranted(gs) == IF gs = <<>> THEN 0 ELSE gs[1].n + TokensGranted(Tail(gs))

\* C29: over any interval of T < 60 seconds without a reset(), the tokens
\* granted by successful acquires of all threads are at most
\* burst_size + rate * T; the interval runs from any recorded grant to now
\* (both sides in sixtieths of a token).
C29_GrantsWithinBurstPlusRate ==
    \A i \in 1..Len(grants) :
        TokenScale * TokensGranted(SubSeq(grants, i, Len(grants)))
            <= TokenScale * BurstSize + RequestsPerMinute * grants[i].age

\* more than burst_size tokens granted within less than a minute, the last
\* grant after a refill
C29_Witness ==
    /\ Len(grants) >= 2
    /\ TokensGranted(grants) > BurstSize
    /\ grants[1].age > 0
    /\ grants[Len(grants)].age = 0

\* C30: a generate call with rate limiting and quota management enabled takes
\* one token from the bucket in the step where acquire grants, and nothing
\* more afterwards; its quota check adds 1 to every request counter and
\* max_tokens to every token counter; from then on, through every transport
\* attempt, every backoff sleep and the end of the call, returned or raised,
\* the bucket and the usage counters stay as they are.
C30_RetriesConsumeNothing ==
    [][(BothEnabled /\ InGenerate) =>
          /\ (g_pc = "acquire" /\ pc[Caller] = "body" /\ pc'[Caller] = "idle"
              /\ result'[Caller].kind = "True") =>
                tokens' = Refill(tokens, since_update) - TokenScale
          /\ (g_pc = "acquire" /\ result[Caller].kind = "True") => tokens' = tokens
          /\ g_pc = "acquire" => usage' = usage
          /\ (g_pc = "quota" /\ g_pc' = "transport") =>
                LET r == reset_if_needed(usage, qnow) IN
                /\ tokens' = tokens
                /\ usage'.total_requests = r.total_requests + 1
                /\ usage'.requests_this_minute = r.requests_this_minute + 1
                /\ usage'.requests_this_hour = r.requests_this_hour + 1
                /\ usage'.requests_this_day = r.requests_this_day + 1
                /\ usage'.total_tokens = r.total_tokens + ServiceMaxTokens
                /\ usage'.tokens_this_minute = r.tokens_this_minute + ServiceMaxTokens
                /\ usage'.tokens_this_day = r.tokens_this_day + ServiceMaxTokens
          /\ g_pc = "transport" => (tokens' = tokens /\ usage' = usage)]_vars

\* the first generate of a service has failed after max_retries + 1 = 2
\* transport attempts: one token and one request are gone
C30_Witness ==
    /\ BothEnabled
    /\ g_method = "generate"
    /\ g_pc = "idle"
    /\ g_result.kind = "raised"
    /\ Len(fn_log) = 2
    /\ Len(sleeps) = 1
    /\ tokens = TokenScale * BurstSize - TokenScale
    /\ usage.total_requests = 1
    /\ usage.requests_this_minute = 1
    /\ usage.total_tokens = ServiceMaxTokens
====
